---------------------------- MODULE Spec2Model ----------------------------
(***************************************************************************)
(* Model of the bookstore manager (src/bm.py): the SQLite store with its   *)
(* three tables, the connection's view of it (db) and the committed state  *)
(* on disk (disk), and the handlers the menu loop of main() dispatches to. *)
(***************************************************************************)
EXTENDS Integers, Sequences, FiniteSets, TLC

VARIABLES
    pc,      \* where the process is: "start", "prompt", "printed", "exited", "crashed"
    db,      \* the store as the open connection sees it (pending writes included)
    disk,    \* the committed store: what a new connection would read
    op,      \* the handler the menu choice ran
    args,    \* what the user typed at its prompts
    ret,     \* what it returned / printed: [ok, kind, info]
    issued   \* history: every sale identifier ever assigned

vars == <<pc, db, disk, op, args, ret, issued>>

-----------------------------------------------------------------------------
(* Bounds of the model *)

\* sale identifiers are assigned while the AUTOINCREMENT counter is below this
MaxSid == 5

-----------------------------------------------------------------------------
(* Small helpers *)

Max(a, b) == IF a >= b THEN a ELSE b

RECURSIVE SetMax(_)
SetMax(S) == IF S = {} THEN 0
             ELSE LET x == CHOOSE y \in S : TRUE
                  IN Max(x, SetMax(S \ {x}))

\* str.count(ch)
RECURSIVE Count(_, _)
Count(ch, s) == IF s = <<>> THEN 0
                ELSE (IF Head(s) = ch THEN 1 ELSE 0) + Count(ch, Tail(s))

\* a line of text typed at a prompt: empty, not a number, or a number
Blank == [t |-> "blank", v |-> 0]
Text == [t |-> "text", v |-> 0]
Num(n) == [t |-> "num", v |-> n]

\* int(s) raises ValueError unless s is a number
IsInt(tok) == tok.t = "num"

Ret(ok, kind, info) == [ok |-> ok, kind |-> kind, info |-> info]

-----------------------------------------------------------------------------
(* The store *)

NoRows == [k \in {} |-> k]

\* the store before initialize_db has ever run: no rows anywhere
EmptyStore == [member |-> NoRows, book |-> NoRows, sale |-> {}, seq |-> 0]

D(y1, y2, y3, y4, m1, m2, d1, d2) ==
    <<y1, y2, y3, y4, "-", m1, m2, "-", d1, d2>>

SeedMembers ==
    [m \in {"M001", "M002", "M003"} |->
        CASE m = "M001" -> [mname |-> "Alice", mphone |-> "0912-345678", memail |-> "alice@example.com"]
          [] m = "M002" -> [mname |-> "Bob", mphone |-> "0923-456789", memail |-> "bob@example.com"]
          [] m = "M003" -> [mname |-> "Cathy", mphone |-> "0934-567890", memail |-> "cathy@example.com"]]

SeedBooks ==
    [b \in {"B001", "B002", "B003"} |->
        CASE b = "B001" -> [btitle |-> "Python Programming", bprice |-> 600, bstock |-> 50]
          [] b = "B002" -> [btitle |-> "Data Science Basics", bprice |-> 800, bstock |-> 30]
          [] b = "B003" -> [btitle |-> "Machine Learning Guide", bprice |-> 1200, bstock |-> 20]]

SeedSales == <<
    [sdate |-> D("2","0","2","4","0","1","1","5"), mid |-> "M001", bid |-> "B001", sqty |-> 2, sdiscount |-> 100, stotal |-> 1100],
    [sdate |-> D("2","0","2","4","0","1","1","6"), mid |-> "M002", bid |-> "B002", sqty |-> 1, sdiscount |-> 50, stotal |-> 750],
    [sdate |-> D("2","0","2","4","0","1","1","7"), mid |-> "M001", bid |-> "B003", sqty |-> 3, sdiscount |-> 200, stotal |-> 3400],
    [sdate |-> D("2","0","2","4","0","1","1","8"), mid |-> "M003", bid |-> "B001", sqty |-> 1, sdiscount |-> 0, stotal |-> 600] >>

Sids(d) == {s.sid : s \in d.sale}

SaleOf(d, sid) == CHOOSE s \in d.sale : s.sid = sid

\* mutant of NextSid: a plain INTEGER PRIMARY KEY, one more than the largest present
NextSid_MaxRowid(d) == SetMax(Sids(d)) + 1

\* sid INTEGER PRIMARY KEY AUTOINCREMENT: one more than the largest identifier
\* the table has ever held (sqlite_sequence), never less than the largest present
NextSid(d) == Max(d.seq, SetMax(Sids(d))) + 1

\* INSERT INTO sale (sdate, mid, bid, sqty, sdiscount, stotal) VALUES (...)
InsertSale(d, sdate, mid, bid, sqty, sdiscount, stotal) ==
    LET sid == NextSid(d)
    IN [d EXCEPT !.sale = @ \cup {[sid |-> sid, sdate |-> sdate, mid |-> mid, bid |-> bid,
                                   sqty |-> sqty, sdiscount |-> sdiscount, stotal |-> stotal]},
                 !.seq = sid]

\* mutant of DecrementStock: the WHERE clause left out
DecrementStock_NoWhere(d, bid, sqty) ==
    [d EXCEPT !.book = [b \in DOMAIN @ |-> [@[b] EXCEPT !.bstock = @ - sqty]]]

\* UPDATE book SET bstock = bstock - ? WHERE bid = ?
DecrementStock(d, bid, sqty) ==
    [d EXCEPT !.book = [b \in DOMAIN @ |->
                          IF b = bid THEN [@[b] EXCEPT !.bstock = @ - sqty] ELSE @[b]]]

\* mutant of UpdateSaleRow: the WHERE clause left out
UpdateSaleRow_NoWhere(d, sid, new_discount, stotal) ==
    [d EXCEPT !.sale = {[s EXCEPT !.sdiscount = new_discount, !.stotal = stotal] : s \in @}]

\* UPDATE sale SET sdiscount = ?, stotal = ? WHERE sid = ?
UpdateSaleRow(d, sid, new_discount, stotal) ==
    [d EXCEPT !.sale = {IF s.sid = sid
                        THEN [s EXCEPT !.sdiscount = new_discount, !.stotal = stotal]
                        ELSE s : s \in @}]

\* mutant of DeleteSaleRow: <= where the code has =
DeleteSaleRow_UpTo(d, sid) == [d EXCEPT !.sale = {s \in @ : ~(s.sid <= sid)}]

\* DELETE FROM sale WHERE sid = ?
DeleteSaleRow(d, sid) == [d EXCEPT !.sale = {s \in @ : s.sid # sid}]

-----------------------------------------------------------------------------
(* initialize_db *)

\* mutant of StoreIsEmpty: the sale table counted instead of the member table
StoreIsEmpty_Sales(d) == Cardinality(d.sale) = 0

\* SELECT COUNT(*) FROM member ... == 0
StoreIsEmpty(d) == Cardinality(DOMAIN d.member) = 0

RECURSIVE InsertSeedSales(_, _)
InsertSeedSales(d, rows) ==
    IF rows = <<>> THEN d
    ELSE LET r == Head(rows)
         IN InsertSeedSales(
                InsertSale(d, r.sdate, r.mid, r.bid, r.sqty, r.sdiscount, r.stotal),
                Tail(rows))

SeedStore(d) ==
    InsertSeedSales(
        [d EXCEPT !.member = [m \in DOMAIN SeedMembers \cup DOMAIN @ |->
                                IF m \in DOMAIN SeedMembers THEN SeedMembers[m] ELSE @[m]],
                  !.book = [b \in DOMAIN SeedBooks \cup DOMAIN @ |->
                                IF b \in DOMAIN SeedBooks THEN SeedBooks[b] ELSE @[b]]],
        SeedSales)

initialize_db(d) == IF StoreIsEmpty(d) THEN SeedStore(d) ELSE d

-----------------------------------------------------------------------------
(* add_sale *)

\* len(sdate) != 10 or sdate.count('-') != 2
DateShapeBad(sdate) == Len(sdate) # 10 \/ Count("-", sdate) # 2

\* mutant of QtyDiscountBad: < where the code has <=
QtyDiscountBad_ZeroAllowed(sqty, sdiscount) == sqty < 0 \/ sdiscount < 0

\* sqty <= 0 or sdiscount < 0
QtyDiscountBad(sqty, sdiscount) == sqty <= 0 \/ sdiscount < 0

\* SELECT 1 FROM member WHERE mid = ?
MemberExists(d, mid) == mid \in DOMAIN d.member

\* SELECT bprice, bstock FROM book WHERE bid = ?
BookExists(d, bid) == bid \in DOMAIN d.book

\* mutant of InsufficientStock: the check left out
InsufficientStock_Omitted(sqty, bstock) == FALSE

\* sqty > bstock
InsufficientStock(sqty, bstock) == sqty > bstock

\* stotal = bprice * sqty - sdiscount; if stotal < 0: stotal = 0
SaleTotal(bprice, sqty, sdiscount) ==
    LET stotal == bprice * sqty - sdiscount
    IN IF stotal < 0 THEN 0 ELSE stotal

\* the checks of add_sale in the order the code makes them: the kind of the
\* first one that fails, "ok" when none does
Validate(d, sdate, mid, bid, sqty, sdiscount) ==
    IF DateShapeBad(sdate) THEN "DateFormat"
    ELSE IF QtyDiscountBad(sqty, sdiscount) THEN "QtyDiscount"
    ELSE IF ~MemberExists(d, mid) THEN "MemberNotFound"
    ELSE IF ~BookExists(d, bid) THEN "BookNotFound"
    ELSE IF InsufficientStock(sqty, d.book[bid].bstock) THEN "InsufficientStock"
    ELSE "ok"

\* what the writes of add_sale can meet: nothing, sqlite3.IntegrityError raised by
\* the INSERT or by the UPDATE (caught by the handler), or the end of the process
\* before the commit (a crash, or any other exception, which nothing catches)
Faults == {"none", "insert_integrity", "update_integrity", "crash"}

\* an exception nothing catches ends the process; the connection goes away with
\* its pending writes
Die(kind) ==
    /\ pc' = "crashed"
    /\ db' = disk
    /\ ret' = Ret(FALSE, kind, 0)
    /\ UNCHANGED <<disk, issued>>

add_sale(sdate, mid, bid, sqty, sdiscount, fault) ==
    LET v == Validate(db, sdate, mid, bid, sqty, sdiscount)
    IN IF v # "ok"
       THEN /\ fault = "none"
            /\ pc' = "printed"
            /\ ret' = Ret(FALSE, v, IF v = "InsufficientStock" THEN db.book[bid].bstock ELSE 0)
            /\ UNCHANGED <<db, disk, issued>>
       ELSE LET stotal == SaleTotal(db.book[bid].bprice, sqty, sdiscount)
                inserted == InsertSale(db, sdate, mid, bid, sqty, sdiscount, stotal)
                updated == DecrementStock(inserted, bid, sqty)
            IN /\ db.seq < MaxSid
               /\ CASE fault = "none" ->
                         /\ pc' = "printed"
                         /\ db' = updated
                         /\ disk' = updated
                         /\ issued' = issued \cup {inserted.seq}
                         /\ ret' = Ret(TRUE, "Added", stotal)
                    [] fault = "insert_integrity" ->
                         /\ pc' = "printed"
                         /\ ret' = Ret(FALSE, "Integrity", 0)
                         /\ UNCHANGED <<db, disk, issued>>
                    [] fault = "update_integrity" ->
                         /\ pc' = "printed"
                         /\ db' = inserted
                         /\ issued' = issued \cup {inserted.seq}
                         /\ ret' = Ret(FALSE, "Integrity", 0)
                         /\ UNCHANGED disk
                    [] fault = "crash" -> Die("Uncaught")

-----------------------------------------------------------------------------
(* update_sale and delete_sale *)

RECURSIVE SortedSeq(_)
SortedSeq(S) == IF S = {} THEN <<>>
                ELSE LET m == CHOOSE x \in S : \A y \in S : x <= y
                     IN <<m>> \o SortedSeq(S \ {m})

\* SELECT s.sid ... FROM sale s JOIN member m ON s.mid = m.mid ORDER BY s.sid
SalesList(d) == SortedSeq({s.sid : s \in {r \in d.sale : r.mid \in DOMAIN d.member}})

\* mutant of UpdatedTotal: the max(..., 0) left out
UpdatedTotal_NoClamp(bprice, sqty, new_discount) == bprice * sqty - new_discount

\* stotal = max(bprice * sqty - new_discount, 0)
UpdatedTotal(bprice, sqty, new_discount) == Max(bprice * sqty - new_discount, 0)

update_sale(choice, discount) ==
    /\ pc = "prompt"
    /\ pc' = "printed"
    /\ op' = "update_sale"
    /\ args' = <<choice, discount>>
    /\ UNCHANGED issued
    /\ LET sales == SalesList(db)
           Stop(kind) == ret' = Ret(FALSE, kind, 0) /\ UNCHANGED <<db, disk>>
       IN IF sales = <<>> THEN Stop("NoSales")
          ELSE IF choice.t = "blank" THEN Stop("Cancelled")
          ELSE IF ~IsInt(choice) THEN Stop("NotNumber")
          ELSE IF choice.v < 1 \/ choice.v > Len(sales) THEN Stop("OutOfRange")
          ELSE IF ~IsInt(discount) THEN Stop("DiscountNotInt")
          ELSE IF discount.v < 0 THEN Stop("NegativeDiscount")
          ELSE LET sid == sales[choice.v]
                   row == SaleOf(db, sid)
               IN IF ~BookExists(db, row.bid) THEN Stop("SaleNotFound")
                  ELSE LET stotal == UpdatedTotal(db.book[row.bid].bprice, row.sqty, discount.v)
                           updated == UpdateSaleRow(db, sid, discount.v, stotal)
                       IN /\ db' = updated
                          /\ disk' = updated
                          /\ ret' = Ret(TRUE, "Updated", stotal)

\* the prompt loop of delete_sale: the first line that is empty or a number in
\* range ends it, every other line is asked again (Text when no line ends it)
RECURSIVE FirstAccepted(_, _)
FirstAccepted(inputs, n) ==
    IF inputs = <<>> THEN Text
    ELSE LET c == Head(inputs)
         IN IF c.t = "blank" THEN c
            ELSE IF IsInt(c) /\ ~(c.v < 1 \/ c.v > n) THEN c
            ELSE FirstAccepted(Tail(inputs), n)

\* fault: the DELETE raises sqlite3.Error, which the handler catches
delete_sale(inputs, fault) ==
    /\ pc = "prompt"
    /\ pc' = "printed"
    /\ op' = "delete_sale"
    /\ args' = inputs
    /\ UNCHANGED issued
    /\ LET sales == SalesList(db)
           Stop(kind) == ret' = Ret(FALSE, kind, 0) /\ UNCHANGED <<db, disk>>
       IN IF sales = <<>> THEN ~fault /\ Stop("NoSales")
          ELSE LET choice == FirstAccepted(inputs, Len(sales))
               IN /\ choice.t # "text"
                  /\ IF choice.t = "blank" THEN ~fault /\ Stop("Cancelled")
                     ELSE IF fault THEN Stop("DeleteFailed")
                     ELSE LET sid_to_delete == sales[choice.v]
                              deleted == DeleteSaleRow(db, sid_to_delete)
                          IN /\ db' = deleted
                             /\ disk' = deleted
                             /\ ret' = Ret(TRUE, "Deleted", sid_to_delete)

-----------------------------------------------------------------------------
(* print_sale_report *)

\* SELECT ... FROM sale s JOIN member m ... JOIN book b ... ORDER BY s.sid
ReportRows(d) ==
    SortedSeq({s.sid : s \in {r \in d.sale : r.mid \in DOMAIN d.member
                                            /\ r.bid \in DOMAIN d.book}})

print_sale_report ==
    /\ pc = "prompt"
    /\ pc' = "printed"
    /\ op' = "report"
    /\ args' = <<>>
    /\ ret' = IF ReportRows(db) = <<>> THEN Ret(FALSE, "NoSales", 0)
                                       ELSE Ret(TRUE, "Report", Len(ReportRows(db)))
    /\ UNCHANGED <<db, disk, issued>>

-----------------------------------------------------------------------------
(* main *)

\* what the user can type at the prompts
Dates == { D("2","0","2","4","0","2","0","1"),            \* 2024-02-01
           <<"2","0","2","4","-","2","-","1">>,           \* 2024-2-1: 8 characters
           <<"2","0","2","4","-","0","2","0","0","1">> }  \* 2024-02001: one hyphen
Mids == {"M001", "M999"}
Bids == {"B001", "B999"}
Qtys == {0, 2, 50, 51}
Discounts == {-1, 100, 5000}
NewDiscounts == {-1, 1000}
Numbers(S) == {Text} \cup {Num(n) : n \in S}
Choices == {Blank} \cup Numbers(0 .. MaxSid + 1)
DeleteInputs == {<<c>> : c \in Choices} \cup {<<Text, c>> : c \in Choices}

\* conn = connect_db(); initialize_db(conn); the menu is printed: a new process
\* opens the committed store, seeds it when it is empty, and commits
Start ==
    /\ pc \in {"start", "exited", "crashed"}
    /\ pc' = "printed"
    /\ op' = "init"
    /\ args' = <<>>
    /\ db' = initialize_db(disk)
    /\ disk' = db'
    /\ issued' = issued \cup Sids(db')
    /\ ret' = Ret(TRUE, "Initialized", 0)

\* while True: the message is on the screen, the loop asks for the next choice
Loop ==
    /\ pc = "printed"
    /\ pc' = "prompt"
    /\ op' = "none"
    /\ args' = <<>>
    /\ ret' = Ret(TRUE, "none", 0)
    /\ UNCHANGED <<db, disk, issued>>

\* case '1': the five prompts, int() on the quantity and on the discount, add_sale
MenuAdd(sdate, mid, bid, qty, discount, fault) ==
    /\ pc = "prompt"
    /\ op' = "add_sale"
    /\ args' = <<sdate, mid, bid, qty, discount>>
    /\ IF ~IsInt(qty) \/ ~IsInt(discount)
       THEN fault = "none" /\ Die("ValueError")
       ELSE add_sale(sdate, mid, bid, qty.v, discount.v, fault)

\* case '5'
MenuExit ==
    /\ pc = "prompt"
    /\ pc' = "exited"
    /\ op' = "exit"
    /\ args' = <<>>
    /\ db' = disk
    /\ ret' = Ret(TRUE, "Bye", 0)
    /\ UNCHANGED <<disk, issued>>

\* case _
MenuInvalid ==
    /\ pc = "prompt"
    /\ pc' = "printed"
    /\ op' = "invalid"
    /\ args' = <<>>
    /\ ret' = Ret(FALSE, "InvalidChoice", 0)
    /\ UNCHANGED <<db, disk, issued>>

Init ==
    /\ pc = "start"
    /\ db = EmptyStore
    /\ disk = EmptyStore
    /\ op = "none"
    /\ args = <<>>
    /\ ret = Ret(TRUE, "none", 0)
    /\ issued = {}

\* the program with a store whose writes succeed
Next ==
    \/ Start
    \/ Loop
    \/ \E sdate \in Dates, mid \in Mids, bid \in Bids,
          qty \in Numbers(Qtys), discount \in Numbers(Discounts) :
            MenuAdd(sdate, mid, bid, qty, discount, "none")
    \/ print_sale_report
    \/ \E choice \in Choices, discount \in Numbers(NewDiscounts) : update_sale(choice, discount)
    \/ \E inputs \in DeleteInputs : delete_sale(inputs, FALSE)
    \/ MenuExit
    \/ MenuInvalid

Spec == Init /\ [][Next]_vars

\* the program with a store whose writes can fail and a process that can die
NextFault ==
    \/ Start
    \/ Loop
    \/ \E sdate \in Dates, mid \in Mids, bid \in Bids,
          qty \in Numbers(Qtys), discount \in Numbers(Discounts), fault \in Faults :
            MenuAdd(sdate, mid, bid, qty, discount, fault)
    \/ print_sale_report
    \/ \E choice \in Choices, discount \in Numbers(NewDiscounts) : update_sale(choice, discount)
    \/ \E inputs \in DeleteInputs, fault \in BOOLEAN : delete_sale(inputs, fault)
    \/ MenuExit
    \/ MenuInvalid

SpecFault == Init /\ [][NextFault]_vars

-----------------------------------------------------------------------------
(* Properties *)

\* a step in which the menu loop runs the handler h
Ran(h) == pc = "prompt" /\ op' = h

NewRows(before, after) == {s \in after.sale : s.sid \notin Sids(before)}
Formula(price, qty, discount) == Max(price * qty - discount, 0)

\* what the claims call a valid add_sale call, read off the arguments and the store
WellShaped(sdate) == Len(sdate) = 10 /\ Cardinality({i \in DOMAIN sdate : sdate[i] = "-"}) = 2
InvalidInput(a) == ~WellShaped(a[1]) \/ a[4].v <= 0 \/ a[5].v < 0
NotFound(d, a) == a[2] \notin DOMAIN d.member \/ a[3] \notin DOMAIN d.book
Conflict(d, a) == a[3] \in DOMAIN d.book /\ a[4].v > d.book[a[3]].bstock
PassesValidation(d, a) == ~InvalidInput(a) /\ ~NotFound(d, a) /\ ~Conflict(d, a)
Parsed(a) == a[4].t = "num" /\ a[5].t = "num"

ErrorClass(kind) ==
    CASE kind \in {"DateFormat", "QtyDiscount"} -> "InvalidInput"
      [] kind \in {"MemberNotFound", "BookNotFound"} -> "NotFound"
      [] kind = "InsufficientStock" -> "Conflict"
      [] OTHER -> "other"

C2_StockNeverNegative ==
    /\ \A b \in DOMAIN db.book : db.book[b].bstock >= 0
    /\ \A b \in DOMAIN disk.book : disk.book[b].bstock >= 0

\* a sale of 50 copies has taken the whole stock of B001: the stock is exactly 0
C2_Witness ==
    /\ pc = "printed" /\ op = "add_sale" /\ ret.ok
    /\ db.book["B001"].bstock = 0

\* C3: an add_sale call that fails validation returns a failure and changes
\* nothing (stocks, sale rows, next sale identifier, on the connection and on
\* disk); the error is the one of the first check that fails: invalid input for a
\* malformed date, a quantity <= 0 or a discount < 0, otherwise not found for an
\* unknown member or book, otherwise insufficient stock (with the current stock).
C3_FailedValidationChangesNothing ==
    [][(Ran("add_sale") /\ Parsed(args') /\ ~PassesValidation(db, args')) =>
        LET a == args'
        IN /\ ~ret'.ok /\ pc' = "printed"
           /\ db' = db /\ disk' = disk
           /\ NextSid(db') = NextSid(db)
           /\ ErrorClass(ret'.kind) =
                IF InvalidInput(a) THEN "InvalidInput"
                ELSE IF NotFound(db, a) THEN "NotFound"
                ELSE "Conflict"
           /\ ret'.kind = "InsufficientStock" => ret'.info = db.book[a[3]].bstock]_vars

\* 50 copies asked of a book that has 48 left
C3_Witness ==
    /\ pc = "printed" /\ op = "add_sale" /\ ~ret.ok
    /\ ret.kind = "InsufficientStock" /\ ret.info = 48
    /\ args[4] = Num(50)
    /\ db.book["B001"].bstock = 48

\* C4: the two writes of add_sale reach the disk together or not at all: every
\* step that changes the committed store after it was seeded adds, for each
\* book, sale rows whose quantities sum to what the book's stock went down by.
RECURSIVE SumQty(_)
SumQty(S) == IF S = {} THEN 0
             ELSE LET s == CHOOSE x \in S : TRUE
                  IN s.sqty + SumQty(S \ {s})

C4_AddSaleAtomic ==
    [][(op' # "init") =>
        \A b \in DOMAIN disk.book :
            /\ b \in DOMAIN disk'.book
            /\ disk'.book[b].bstock =
                 disk.book[b].bstock - SumQty({s \in NewRows(disk, disk') : s.bid = b})]_vars

\* C5: every sale row, seed rows included, has total = max(price of its book *
\* quantity - discount, 0), quantity > 0 and discount >= 0.
C5_TotalsConsistent ==
    \A d \in {db, disk} : \A s \in d.sale :
        /\ s.bid \in DOMAIN d.book
        /\ s.stotal = Formula(d.book[s.bid].bprice, s.sqty, s.sdiscount)
        /\ s.sqty > 0
        /\ s.sdiscount >= 0

\* a new sale whose discount exceeds its price, and a seed row whose discount was
\* raised above its price: both totals are 0
C5_Witness ==
    /\ pc = "printed" /\ op = "update_sale" /\ ret.ok
    /\ Cardinality(db.sale) = 5
    /\ \E s \in db.sale : s.sid = 5 /\ s.sdiscount = 5000 /\ s.stotal = 0
    /\ \E s \in db.sale : s.sid = 2 /\ s.sdiscount = 1000 /\ s.stotal = 0

\* the sale at position n of the list update_sale and delete_sale print
Selected(d, n) == {s \in d.sale : Cardinality({t \in d.sale : t.sid <= s.sid}) = n}
InRange(d, c) == c.t = "num" /\ c.v >= 1 /\ c.v <= Cardinality(d.sale)

\* C6: update_sale on an existing sale with a new discount >= 0 succeeds, sets
\* that sale's discount to the new value and its total to max(price * quantity -
\* new discount, 0), and leaves its identifier, date, member, book and quantity,
\* every other sale row and every book as they were; a negative new discount is
\* rejected and changes nothing.
C6_UpdateSaleFrame ==
    [][(Ran("update_sale") /\ InRange(db, args'[1]) /\ args'[2].t = "num") =>
        LET nd == args'[2].v
        IN IF nd < 0
           THEN ~ret'.ok /\ db' = db /\ disk' = disk
           ELSE /\ ret'.ok
                /\ \A s \in Selected(db, args'[1].v) :
                     /\ [s EXCEPT !.sdiscount = nd,
                                  !.stotal = Formula(db.book[s.bid].bprice, s.sqty, nd)] \in db'.sale
                     /\ db'.sale \ {t \in db'.sale : t.sid = s.sid} = db.sale \ {s}
                     /\ Cardinality(db'.sale) = Cardinality(db.sale)
                /\ db'.book = db.book /\ db'.member = db.member /\ db'.seq = db.seq
                /\ disk' = db']_vars

\* the sale made in the example of C1 (600 * 2 - 100) gets a discount of 1000: its total is 200
C6_Witness ==
    /\ pc = "printed" /\ op = "update_sale" /\ ret.ok /\ ret.info = 200
    /\ args = <<Num(5), Num(1000)>>
    /\ \E s \in db.sale : s.sid = 5 /\ s.sqty = 2 /\ s.sdiscount = 1000 /\ s.stotal = 200
    /\ db.book["B001"].bstock = 48

\* the line that ends the prompt loop of delete_sale
Accepts(d, c) == c.t = "blank" \/ InRange(d, c)
Accepted(d, inputs) ==
    {inputs[i] : i \in {j \in DOMAIN inputs :
                          Accepts(d, inputs[j]) /\ \A k \in 1 .. (j - 1) : ~Accepts(d, inputs[k])}}

\* C7: a delete_sale that is given a sale removes exactly that sale row and
\* leaves every other sale row and every book's stock as they were; a cancelled
\* delete changes nothing.
C7_DeleteSaleFrame ==
    [][(Ran("delete_sale") /\ db.sale # {}) =>
        \A c \in Accepted(db, args') :
            IF c.t = "blank"
            THEN ~ret'.ok /\ ret'.kind = "Cancelled" /\ db' = db /\ disk' = disk
            ELSE /\ ret'.ok
                 /\ db'.sale = db.sale \ Selected(db, c.v)
                 /\ Cardinality(db.sale \ db'.sale) = 1
                 /\ db'.book = db.book /\ db'.member = db.member
                 /\ disk' = db']_vars

\* the sale of 2 copies of B001 is deleted and the 2 copies do not come back
C7_Witness ==
    /\ pc = "printed" /\ op = "delete_sale" /\ ret.ok /\ ret.info = 5
    /\ Sids(db) = {1, 2, 3, 4}
    /\ db.book["B001"].bstock = 48

\* C8: every newly created sale gets an identifier greater than every identifier
\* issued before it, whatever was deleted in between.
C8_SaleIdsNeverReused ==
    [][\A s \in NewRows(db, db') : \A i \in issued : s.sid > i]_vars

\* every seed sale was deleted, the sale made after that is number 5
C8_Witness ==
    /\ pc = "printed" /\ op = "add_sale" /\ ret.ok
    /\ Sids(db) = {5}
    /\ issued = {1, 2, 3, 4, 5}

\* C9: no error ends the process: the menu loop ends only when the user chooses 5.
C9_NoErrorIsFatal == pc # "crashed"

=============================================================================
